---- MODULE Spec2Model ----
(***************************************************************************)
(* Memory-footprint resolution of max.pipelines.registry.PipelineRegistry: *)
(* _estimate_memory_footprint, _raise_oom_error and the two binary         *)
(* searches _find_valid_max_length and _find_valid_batch_size.             *)
(*                                                                         *)
(* One resolution is a sequential program; pc is its position.  The        *)
(* architecture's cost model (estimate_weights_size,                       *)
(* estimate_kv_cache_size, calculate_max_seq_len,                          *)
(* infer_optimal_batch_size) is an external collaborator: its answers are  *)
(* inputs, drawn from bounded sets.  The functions that are called more    *)
(* than once in a resolution (cache size, inferred batch size) are fixed   *)
(* tables in `model`; the ones called once (weights size, ceiling, device  *)
(* stats) are chosen where the code calls them.                            *)
(***************************************************************************)
EXTENDS Integers, Sequences, FiniteSets, TLC

VARIABLES
    registry,         \* the PipelineRegistry object, and the calls made on it
    validate,         \* frame of validate_pipeline_config
    model,            \* cost model of arch.pipeline_model (tables)
    pipeline_config,  \* the PipelineConfig object the resolution mutates
    pinned,           \* the caller's max_length / max_batch_size at entry
    emf,              \* locals of _estimate_memory_footprint
    oom,              \* locals of _raise_oom_error
    search,           \* frame of the binary search that is running or ran last
    hist,             \* history: counts of cost-model calls, warnings logged
    outcome,          \* how the resolution ended ("running" until then)
    pc                \* position in the code

vars ==
    <<registry, validate, model, pipeline_config, pinned, emf, oom, search,
      hist, outcome, pc>>

----------------------------------------------------------------------------
(* Bounds of the model *)

\* largest max_length (pinned value or model ceiling) of a resolution
MaxLen == 5
\* largest max_batch_size (pinned or inferred)
MaxBatch == 2
\* largest total free device memory, in bytes
MaxFree == 3
\* largest estimated weights size, in bytes
MaxWeights == 2
\* largest initial value of a search run on its own (SearchSpec)
MaxSearchLen == 6
\* most architectures in the list a registry is constructed from
MaxInitial == 2
\* most calls made on one registry (RegistrySpec)
MaxCalls == 4

\* Python's None for an optional int of the config or an unset local
None == -1

Lens == 1..MaxLen
Batches == 1..MaxBatch

\* device_memory_utilization values in (0, 1] that a float holds exactly: 0.5, 1.0
UtilValues == {[num |-> 1, den |-> 2], [num |-> 1, den |-> 1]}

Max(a, b) == IF a >= b THEN a ELSE b

\* vram_usage_limit_scale = 0.95 of line 496, as the fraction 19 / 20
VramUsageLimitNum == 19
VramUsageLimitDen == 20

\* free memory of the devices: the small values, and the least value of
\* which the usage limit is a whole number of bytes
FreeValues == (0..MaxFree) \cup {VramUsageLimitDen}

\* estimated weights size: the small values, and the values that leave at
\* most MaxWeights + 1 bytes of the free memory
WeightValues(free_memory) ==
    (0..MaxWeights)
    \cup {w \in 0..free_memory : free_memory - w \in 1..(MaxWeights + 1)}

----------------------------------------------------------------------------
(* The cost model.  Cache size of (length, batch) is lenCost[length] *     *)
(* batchCost[batch]; with every lenCost in 0..1 any subset of lengths can  *)
(* be the feasible one, monotonic or not.                                  *)

LinearBatchCost == [b \in Batches |-> b]
ReversedBatchCost == [b \in Batches |-> MaxBatch + 1 - b]

\* infer_optimal_batch_size as a function of the config's max_length
InferOne == [l \in Lens |-> 1]
InferMax == [l \in Lens |-> MaxBatch]
InferShrinking == [l \in Lens |-> IF 2 * l <= MaxLen THEN MaxBatch ELSE 1]
InferTables == {InferOne, InferMax, InferShrinking}

Models ==
    [lenCost : [Lens -> 0..1],
     batchCost : {LinearBatchCost, ReversedBatchCost},
     inferTable : InferTables]

\* _calculate_kv_cache_size: the cost model's cache size for the config's
\* current (max_length, max_batch_size); 0 everywhere for a model without
\* a KV cache (lenCost all 0)
calculate_kv_cache_size(cfg) ==
    model.lenCost[cfg.max_length] * model.batchCost[cfg.max_batch_size]

\* _infer_optimal_batch_size for the config's current max_length
infer_optimal_batch_size(cfg) == model.inferTable[cfg.max_length]

----------------------------------------------------------------------------
(* Architectures and the registry of them *)

\* Python's None for an optional name: an architecture name, an engine, an
\* encoding
Absent == "None"

\* PipelineEngine
MAX == "max"
HUGGINGFACE == "huggingface"
Engines == {MAX, HUGGINGFACE}

\* SupportedEncoding
Encodings == {"float32", "bfloat16", "q4_k"}

\* names of architectures: two that register_all_models registers, and one
\* that nothing registers
RegisteredNames == {"replit", "mistral"}
ArchNames == RegisteredNames \cup {"unknown"}

\* SupportedArchitecture, as far as the registry reads it: two
\* architectures of one name differ in the encodings they support
Archs ==
    [name : RegisteredNames,
     default_encoding : {"float32"},
     supported_encodings : {{"float32"}, {"float32", "bfloat16"}}]

\* no architecture: the None that architecture_details returns
NoArch ==
    [name |-> Absent, default_encoding |-> Absent, supported_encodings |-> {}]

\* lines 120-121: the dict of a new registry; of two architectures of one
\* name in the list the later one is kept
PipelineRegistry(architectures) ==
    LET names == {architectures[i].name : i \in DOMAIN architectures}
        last(n) == CHOOSE i \in DOMAIN architectures :
                      /\ architectures[i].name = n
                      /\ \A j \in DOMAIN architectures :
                            architectures[j].name = n => j <= i
    IN  [architectures |-> [n \in names |-> architectures[last(n)]],
         constructed |-> [n \in names |-> architectures[last(n)]],
         calls |-> <<>>]

\* line 1041: PIPELINE_REGISTRY = PipelineRegistry([])
NoRegistry == PipelineRegistry(<<>>)

\* a call made on the registry, as the caller saw it
Call(op, architecture, raised) ==
    [op |-> op, architecture |-> architecture, raised |-> raised]

\* variant of the test below, for checking that the properties notice it
NameTakenNever(reg, name) == FALSE

\* line 125: `architecture.name in self.architectures`
NameTaken(reg, name) == name \in DOMAIN reg.architectures

\* lines 123-129: register raises ValueError for a name that is present,
\* and stores the architecture under its name otherwise
register(reg, architecture) ==
    IF NameTaken(reg, architecture.name)
    THEN [reg EXCEPT !.calls = Append(@, Call("register", architecture, TRUE))]
    ELSE [reg EXCEPT
             !.architectures =
                 [n \in DOMAIN @ \cup {architecture.name} |->
                     IF n = architecture.name THEN architecture ELSE @[n]],
             !.calls = Append(@, Call("register", architecture, FALSE))]

\* lines 1037-1038: reset clears the dict
reset(reg) ==
    [reg EXCEPT !.architectures = [n \in {} |-> NoArch],
                !.calls = Append(@, Call("reset", NoArch, FALSE))]

\* architectures/__init__.py line 28: the list register_all_models
\* registers, its first two entries in their order
AllModels ==
    <<[name |-> "replit", default_encoding |-> "float32",
       supported_encodings |-> {"float32", "bfloat16"}],
      [name |-> "mistral", default_encoding |-> "float32",
       supported_encodings |-> {"float32", "bfloat16"}]>>

\* architectures/__init__.py lines 30-31: the loop over the list ends at
\* the first register that raises
RECURSIVE RegisterEach(_, _)
RegisterEach(reg, architectures) ==
    IF architectures = <<>>
    THEN reg
    ELSE LET r == register(reg, Head(architectures))
         IN  IF r.calls[Len(r.calls)].raised
             THEN r
             ELSE RegisterEach(r, Tail(architectures))

\* validate_pipeline_config is not running.  arch is its local; engine is
\* the config's engine as lines 166 and 260 read it; ret is how it ended
NoValidate == [arch |-> NoArch, engine |-> Absent, ret |-> "none"]

----------------------------------------------------------------------------
(* Initial state: a config as the caller built it, nothing computed yet *)

NoLocals ==
    [free_memory |-> None, model_weights_size |-> None,
     available_kv_cache_memory |-> None,
     user_provided_max_length |-> FALSE,
     user_provided_max_batch_size |-> FALSE,
     ceiling |-> None, actual_kv_cache_size |-> None, total_size |-> None]

NoOom ==
    [original_max_length |-> None, original_max_batch_size |-> None,
     found_valid_max_length |-> FALSE, inferred_max_length |-> None,
     inferred_max_length_compatible_batch_size |-> None,
     found_valid_max_batch_size |-> FALSE, inferred_max_batch_size |-> None,
     error_msg |-> <<>>]

NoSearch ==
    [lower |-> None, upper |-> None, inferred |-> None, found |-> FALSE,
     companion |-> None, evals |-> 0, n0 |-> None, ret |-> "none"]

\* what is remembered of an earlier resolution of the same inputs
NoFirst ==
    [free_memory |-> None, model_weights_size |-> None, ceiling |-> None,
     outcome |-> "none", max_length |-> None, max_batch_size |-> None]

NoHist ==
    [nWeights |-> 0, nKv |-> 0, nSearchEvals |-> 0, nLenSearches |-> 0,
     nBatchSearches |-> 0, shrinkRan |-> FALSE, shrinkFound |-> FALSE,
     warnings |-> {}, run |-> 1, first |-> NoFirst]

Init ==
    /\ model \in Models
    /\ pipeline_config \in
           [max_length : {None} \cup Lens,
            max_batch_size : {None} \cup Batches,
            device_memory_utilization : UtilValues,
            available_cache_memory : {None},
            \* the resolution reads none of these three
            architecture : {Absent},
            engine : {Absent},
            quantization_encoding : {Absent}]
    \* the inferred batch size is read only when max_batch_size is not pinned
    /\ pipeline_config.max_batch_size # None => model.inferTable = InferOne
    /\ pinned = [max_length |-> pipeline_config.max_length,
                 max_batch_size |-> pipeline_config.max_batch_size]
    /\ registry = NoRegistry
    /\ validate = NoValidate
    /\ emf = NoLocals
    /\ oom = NoOom
    /\ search = NoSearch
    /\ hist = NoHist
    /\ outcome = "running"
    /\ pc = "start"

----------------------------------------------------------------------------
(* _estimate_memory_footprint *)

\* Python truthiness of an optional int: `not x` holds for None and for 0
Falsy(x) == x = None \/ x = 0

\* variants of the defaulting below, for checking that the properties
\* notice them
DefaultAlways(x, d) == d
DefaultNever(x, d) == x

\* lines 397-402: `if not x: x = d`
DefaultIfUnset(x, d) == IF Falsy(x) THEN d ELSE x

\* lines 388-403: sum the devices' free memory; when the query raises, log
\* a warning, default whatever is unset and return
QueryDeviceStats ==
    /\ pc = "start"
    /\ \/ \E f \in FreeValues :
             /\ emf' = [emf EXCEPT !.free_memory = f]
             /\ pc' = "estimate"
             /\ UNCHANGED <<pipeline_config, hist, outcome>>
       \/ \E c \in IF Falsy(pipeline_config.max_length) THEN Lens ELSE {None} :
             /\ pipeline_config' =
                    [pipeline_config EXCEPT
                        !.max_batch_size = DefaultIfUnset(@, 1),
                        !.max_length = DefaultIfUnset(@, c)]
             /\ emf' = [emf EXCEPT !.ceiling = c]
             /\ hist' = [hist EXCEPT
                            !.warnings = @ \cup {"DeviceStatsUnavailable"}]
             /\ outcome' = "Degraded"
             /\ pc' = "done"
    /\ UNCHANGED <<registry, validate, model, pinned, oom, search>>

\* a variant of the budget below, for checking that the properties notice it
AvailableKvCacheMemoryUnclamped(free, weights, util) ==
    ((free - weights) * util.num) \div util.den

\* available_kv_cache_memory of lines 408-412:
\* int(max(0, free - weights) * device_memory_utilization)
AvailableKvCacheMemory(free, weights, util) ==
    (Max(0, free - weights) * util.num) \div util.den

\* variants of the comparison below, for checking that the properties
\* notice them; the second reads what an earlier resolution left behind
OverflowsByTwo(total_size, free_memory) == total_size > free_memory + 1
OverflowsOnFirstRun(total_size, free_memory) ==
    total_size > free_memory + (hist.run - 1)

\* `total_size > free_memory` of lines 440 and 499
Overflows(total_size, free_memory) == total_size > free_memory

\* lines 405-451: weights size, cache budget, defaults for what the user
\* left unset, cache size and total; then either the auto-shrink search is
\* entered (total over free memory and max_length not pinned) or the report
EstimateBudget ==
    /\ pc = "estimate"
    /\ \E w \in WeightValues(emf.free_memory),
          c \in IF pipeline_config.max_length = None THEN Lens ELSE {None} :
          LET avail == AvailableKvCacheMemory(
                           emf.free_memory, w,
                           pipeline_config.device_memory_utilization)
              upl == pipeline_config.max_length # None
              upb == pipeline_config.max_batch_size # None
              cfg1 == [pipeline_config EXCEPT
                          !.max_length = IF upl THEN @ ELSE c]
              cfg2 == [cfg1 EXCEPT
                          !.max_batch_size =
                              IF upb THEN @ ELSE infer_optimal_batch_size(cfg1)]
              kv == calculate_kv_cache_size(cfg2)
              total == w + kv
              shrink == Overflows(total, emf.free_memory) /\ ~upl
          IN  /\ pipeline_config' =
                     [cfg2 EXCEPT !.available_cache_memory = kv]
              /\ emf' = [emf EXCEPT
                            !.model_weights_size = w,
                            !.available_kv_cache_memory = avail,
                            !.user_provided_max_length = upl,
                            !.user_provided_max_batch_size = upb,
                            !.ceiling = c,
                            !.actual_kv_cache_size = kv,
                            !.total_size = total]
              /\ hist' = [hist EXCEPT
                             !.nWeights = @ + 1, !.nKv = @ + 1,
                             !.shrinkRan = shrink]
              /\ search' = [search EXCEPT
                               !.ret = IF shrink THEN "auto_shrink_return"
                                       ELSE @]
              /\ pc' = IF shrink THEN "find_valid_max_length" ELSE "report"
    /\ UNCHANGED <<registry, validate, model, pinned, oom, outcome>>

\* lines 453-463: adopt the length the auto-shrink search found and
\* recompute cache size and total; a failed search changes neither
AutoShrinkReturn ==
    /\ pc = "auto_shrink_return"
    /\ IF search.found
       THEN LET cfg1 == [pipeline_config EXCEPT !.max_length = search.inferred]
                kv == calculate_kv_cache_size(cfg1)
            IN  /\ pipeline_config' = cfg1
                /\ emf' = [emf EXCEPT
                              !.actual_kv_cache_size = kv,
                              !.total_size = emf.model_weights_size + kv]
                /\ hist' = [hist EXCEPT
                               !.nKv = @ + 1, !.shrinkFound = TRUE,
                               !.warnings = @ \cup {"Truncated"}]
       ELSE UNCHANGED <<pipeline_config, emf, hist>>
    /\ pc' = "report"
    /\ UNCHANGED <<registry, validate, model, pinned, oom, search, outcome>>

\* a variant of the comparison below, for checking that the properties
\* notice it
NearsOrReachesAvailableMemory(total, free) ==
    VramUsageLimitDen * total >= VramUsageLimitNum * free

\* `total_size > vram_usage_limit_scale * free_memory` (line 511) with the
\* scale 0.95 of line 496, in integers
NearsAvailableMemory(total, free) ==
    VramUsageLimitDen * total > VramUsageLimitNum * free

\* lines 465-514: build the log record, then the final check.  With
\* free_memory = 0 the local free_memory_str is never bound (line 465) and
\* formatting the record (line 491) raises UnboundLocalError.
ReportAndCheck ==
    /\ pc = "report"
    /\ IF emf.free_memory = 0
       THEN /\ outcome' = "UnboundLocalError"
            /\ pc' = "done"
            /\ UNCHANGED hist
       ELSE IF Overflows(emf.total_size, emf.free_memory)
       THEN /\ pc' = "raise_oom_error"
            /\ UNCHANGED <<outcome, hist>>
       ELSE /\ outcome' = "Success"
            /\ pc' = "done"
            /\ hist' = [hist EXCEPT
                           !.warnings =
                               IF NearsAvailableMemory(emf.total_size,
                                                       emf.free_memory)
                               THEN @ \cup {"HighWaterMark"} ELSE @]
    /\ UNCHANGED <<registry, validate, model, pipeline_config, pinned, emf, oom, search>>

----------------------------------------------------------------------------
(* _find_valid_max_length *)

\* lines 607-613: the search starts over [1, pipeline_config.max_length]
FindValidMaxLengthEntry ==
    /\ pc = "find_valid_max_length"
    /\ search' = [search EXCEPT
                     !.lower = 1,
                     !.upper = pipeline_config.max_length,
                     !.inferred = pipeline_config.max_length,
                     !.found = FALSE,
                     !.companion = None,
                     !.evals = 0,
                     !.n0 = pipeline_config.max_length]
    /\ hist' = [hist EXCEPT !.nLenSearches = @ + 1]
    /\ pc' = "max_length_loop"
    /\ UNCHANGED <<registry, validate, model, pipeline_config, pinned, emf, oom, outcome>>

\* the bound a failed trial leaves (lines 636, 683)
UpperAfterMiss(mid) == mid - 1

\* variants of the step below, for checking that the properties notice them
LowerAfterFitSkipping(mid) == mid + 1
LowerAfterFitLagging(mid) == mid - 1
FitsWithSlack(kv_cache_size, available_kv_cache_memory) ==
    kv_cache_size <= available_kv_cache_memory + 1
FitsStrictly(kv_cache_size, available_kv_cache_memory) ==
    kv_cache_size < available_kv_cache_memory

\* the bound a fitting trial leaves (line 638)
LowerAfterFit(mid) == mid

\* whether a trial's cache size is within the budget (lines 631, 635)
Fits(kv_cache_size, available_kv_cache_memory) ==
    kv_cache_size <= available_kv_cache_memory

\* variants of the re-inference below, for checking that the properties
\* notice them
TrialBatchSizeAlwaysInferred(cfg, user_provided_max_batch_size) ==
    infer_optimal_batch_size(cfg)
TrialBatchSizeNeverInferred(cfg, user_provided_max_batch_size) ==
    cfg.max_batch_size

\* lines 619-622: the batch size of a trial is inferred again for the trial
\* length unless the user pinned it
TrialBatchSize(cfg, user_provided_max_batch_size) ==
    IF ~user_provided_max_batch_size THEN infer_optimal_batch_size(cfg)
    ELSE cfg.max_batch_size

\* lines 615-643, one iteration of the loop: the midpoint becomes the
\* config's max_length, the batch size is inferred again unless pinned, the
\* cache size is evaluated; then the loop ends (interval of at most two
\* values: found iff the trial fits) or the interval is halved.  On the way
\* out the triple (found, inferred_max_length, config's batch size) is left
\* for the caller.
FindValidMaxLengthStep ==
    /\ pc = "max_length_loop"
    /\ LET mid == (search.lower + search.upper) \div 2
           cfg1 == [pipeline_config EXCEPT !.max_length = mid]
           cfg2 == [cfg1 EXCEPT
                       !.max_batch_size =
                           TrialBatchSize(cfg1,
                                          emf.user_provided_max_batch_size)]
           kv == calculate_kv_cache_size(cfg2)
           fit == Fits(kv, emf.available_kv_cache_memory)
       IN  /\ pipeline_config' = cfg2
           /\ hist' = [hist EXCEPT
                          !.nKv = @ + 1, !.nSearchEvals = @ + 1]
           /\ IF search.lower > search.upper
              THEN /\ search' = [search EXCEPT
                                    !.inferred = mid, !.evals = @ + 1,
                                    !.companion = cfg2.max_batch_size]
                   /\ pc' = search.ret
              ELSE IF search.upper - search.lower <= 1
              THEN /\ search' = [search EXCEPT
                                    !.inferred = mid, !.evals = @ + 1,
                                    !.found = fit,
                                    !.companion = cfg2.max_batch_size]
                   /\ pc' = search.ret
              ELSE /\ search' = [search EXCEPT
                                    !.inferred = mid, !.evals = @ + 1,
                                    !.upper = IF fit THEN @
                                              ELSE UpperAfterMiss(mid),
                                    !.lower = IF fit THEN LowerAfterFit(mid)
                                              ELSE @]
                   /\ pc' = "max_length_loop"
    /\ UNCHANGED <<registry, validate, model, pinned, emf, oom, outcome>>

----------------------------------------------------------------------------
(* _find_valid_batch_size *)

\* a variant of the guard below, for checking that the properties notice it
NothingToSearchNever(user_provided_max_batch_size) == FALSE

\* line 661: `if not user_provided_max_batch_size`
NothingToSearch(user_provided_max_batch_size) == ~user_provided_max_batch_size

\* lines 661-668: nothing to search when the batch size is not pinned;
\* otherwise max_length is put back to original_max_length and the search
\* starts over [1, pipeline_config.max_batch_size]
FindValidBatchSizeEntry ==
    /\ pc = "find_valid_batch_size"
    /\ IF NothingToSearch(emf.user_provided_max_batch_size)
       THEN /\ search' = [search EXCEPT
                             !.lower = None, !.upper = None,
                             !.found = FALSE, !.inferred = -1,
                             !.companion = None, !.evals = 0, !.n0 = None]
            /\ pc' = search.ret
            /\ UNCHANGED <<pipeline_config, hist>>
       ELSE /\ pipeline_config' =
                   [pipeline_config EXCEPT
                       !.max_length = oom.original_max_length]
            /\ search' = [search EXCEPT
                             !.lower = 1,
                             !.upper = pipeline_config.max_batch_size,
                             !.inferred = pipeline_config.max_batch_size,
                             !.found = FALSE,
                             !.companion = None,
                             !.evals = 0,
                             !.n0 = pipeline_config.max_batch_size]
            /\ hist' = [hist EXCEPT !.nBatchSearches = @ + 1]
            /\ pc' = "batch_size_loop"
    /\ UNCHANGED <<registry, validate, model, pinned, emf, oom, outcome>>

\* lines 670-690, one iteration of the loop, as in the length search with
\* the config's max_batch_size as the searched value
FindValidBatchSizeStep ==
    /\ pc = "batch_size_loop"
    /\ LET mid == (search.lower + search.upper) \div 2
           cfg1 == [pipeline_config EXCEPT !.max_batch_size = mid]
           kv == calculate_kv_cache_size(cfg1)
           fit == Fits(kv, emf.available_kv_cache_memory)
       IN  /\ pipeline_config' = cfg1
           /\ hist' = [hist EXCEPT
                          !.nKv = @ + 1, !.nSearchEvals = @ + 1]
           /\ IF search.lower > search.upper
              THEN /\ search' = [search EXCEPT
                                    !.inferred = mid, !.evals = @ + 1]
                   /\ pc' = search.ret
              ELSE IF search.upper - search.lower <= 1
              THEN /\ search' = [search EXCEPT
                                    !.inferred = mid, !.evals = @ + 1,
                                    !.found = fit]
                   /\ pc' = search.ret
              ELSE /\ search' = [search EXCEPT
                                    !.inferred = mid, !.evals = @ + 1,
                                    !.upper = IF fit THEN @
                                              ELSE UpperAfterMiss(mid),
                                    !.lower = IF fit THEN LowerAfterFit(mid)
                                              ELSE @]
                   /\ pc' = "batch_size_loop"
    /\ UNCHANGED <<registry, validate, model, pinned, emf, oom, outcome>>

----------------------------------------------------------------------------
(* _generate_oom_error_message: the message is the sequence of the writes  *)
(* to its StringIO, each a format string with the values put into it       *)

Write(text, args) == [text |-> text, args |-> args]

\* line 70: round(bytes / 1024 / 1024), Python's round (half to even)
to_mib(bytes) ==
    LET q == bytes \div 1048576
        r == bytes % 1048576
    IN  IF 2 * r > 1048576 \/ (2 * r = 1048576 /\ q % 2 = 1) THEN q + 1
        ELSE q

\* lines 722-731: the opening, with the free memory left out when it is 0
Opening(total_size, original_free_memory) ==
    IF original_free_memory # 0
    THEN Write("Estimated model and kv cache memory use exceeds available memory ({} MiB / {} MiB free). Try ",
               <<to_mib(total_size), to_mib(original_free_memory)>>)
    ELSE Write("Estimated model and kv cache memory use exceeds available memory ({} MiB). Try ",
               <<to_mib(total_size)>>)

\* line 734
GenericFallback ==
    Write("reducing --max-length or --max-batch-size, finding a smaller model, or using a device with more memory.",
          <<>>)
\* line 792
GenericShort == Write("reducing --max-length or --max-batch-size", <<>>)
\* lines 787-790
ReduceLengthSupports(length, batch) ==
    Write("reducing --max-length to {} (supports batch size of {})",
          <<length, batch>>)
\* lines 795-798
ReduceLengthAndBatch(length, batch) ==
    Write("reducing --max-length to {} and --max-batch-size to {})",
          <<length, batch>>)
\* lines 803-805, 848-850
ReduceBatch(batch) == Write("reducing --max-batch-size to {}", <<batch>>)
\* lines 834-837
SetLengthAndBatch(length, batch) ==
    Write("setting --max-length to {} and --max-batch-size to {})",
          <<length, batch>>)
\* lines 842-844
SetBatch(batch) == Write("setting --max-batch-size to {}", <<batch>>)
\* lines 854-857
SetLength(length, original_max_length) ==
    Write("setting --max-length to {} (currently defaulted to {})",
          <<length, original_max_length>>)
\* lines 802, 841, 853
Or == Write(" or ", <<>>)
\* line 759
FullStop == Write(".", <<>>)

\* `if c: msg.write(w)`
WriteIf(c, w) == IF c THEN <<w>> ELSE <<>>

\* lines 762-805: _add_user_provided_max_length_suggestions; kw is the
\* record of its keyword arguments
AddUserProvidedMaxLengthSuggestions(kw) ==
    IF ~kw.user_provided_max_batch_size
    THEN IF kw.found_valid_max_length
         THEN <<ReduceLengthSupports(
                    kw.inferred_max_length,
                    kw.inferred_max_length_compatible_batch_size)>>
         ELSE <<GenericShort>>
    ELSE WriteIf(kw.found_valid_max_length,
                 ReduceLengthAndBatch(
                     kw.inferred_max_length,
                     kw.inferred_max_length_compatible_batch_size))
         \o WriteIf(kw.found_valid_max_batch_size
                        /\ kw.found_valid_max_length, Or)
         \o WriteIf(kw.found_valid_max_batch_size,
                    ReduceBatch(kw.inferred_max_batch_size))

\* lines 807-857: _add_default_max_length_suggestions
AddDefaultMaxLengthSuggestions(kw) ==
    IF ~kw.user_provided_max_batch_size
    THEN WriteIf(kw.found_valid_max_length,
                 SetLengthAndBatch(
                     kw.inferred_max_length,
                     kw.inferred_max_length_compatible_batch_size))
         \o WriteIf(kw.found_valid_max_batch_size
                        /\ kw.found_valid_max_length, Or)
         \o WriteIf(kw.found_valid_max_batch_size,
                    SetBatch(kw.inferred_max_batch_size))
    ELSE WriteIf(kw.found_valid_max_batch_size,
                 ReduceBatch(kw.inferred_max_batch_size))
         \o WriteIf(kw.found_valid_max_length
                        /\ kw.found_valid_max_batch_size, Or)
         \o WriteIf(kw.found_valid_max_length,
                    SetLength(kw.inferred_max_length,
                              kw.original_max_length))

\* a variant of the test below, for checking that the properties notice it
NothingFoundNever(found_valid_max_length, found_valid_max_batch_size) == FALSE

\* line 733: `not found_valid_max_length and not found_valid_max_batch_size`
NothingFound(found_valid_max_length, found_valid_max_batch_size) ==
    ~found_valid_max_length /\ ~found_valid_max_batch_size

\* lines 733-758: what is written between the opening and the full stop
Suggestions(kw) ==
    IF NothingFound(kw.found_valid_max_length, kw.found_valid_max_batch_size)
    THEN <<GenericFallback>>
    ELSE IF kw.user_provided_max_length
    THEN AddUserProvidedMaxLengthSuggestions(kw)
    ELSE AddDefaultMaxLengthSuggestions(kw)

\* lines 707-760; kw is the record of the keyword arguments of lines 577-588
GenerateOomErrorMessage(kw) ==
    <<Opening(kw.total_size, kw.original_free_memory)>>
    \o Suggestions(kw)
    \o <<FullStop>>

----------------------------------------------------------------------------
(* _raise_oom_error *)

\* lines 544-562: weights that exceed free memory on their own end the
\* resolution at once; otherwise the current values are remembered and the
\* length search is entered
RaiseOomError ==
    /\ pc = "raise_oom_error"
    /\ IF emf.model_weights_size > emf.free_memory
       THEN /\ outcome' = "WeightsTooLarge"
            /\ pc' = "done"
            /\ UNCHANGED <<oom, search>>
       ELSE /\ oom' = [oom EXCEPT
                          !.original_max_length = pipeline_config.max_length,
                          !.original_max_batch_size =
                              pipeline_config.max_batch_size]
            /\ search' = [search EXCEPT !.ret = "oom_after_max_length"]
            /\ pc' = "find_valid_max_length"
            /\ UNCHANGED outcome
    /\ UNCHANGED <<registry, validate, model, pipeline_config, pinned, emf, hist>>

\* lines 553-574: take the length search's triple, put the batch size back
\* and enter the batch-size search
OomAfterMaxLength ==
    /\ pc = "oom_after_max_length"
    /\ oom' = [oom EXCEPT
                  !.found_valid_max_length = search.found,
                  !.inferred_max_length = search.inferred,
                  !.inferred_max_length_compatible_batch_size =
                      search.companion]
    /\ pipeline_config' =
           [pipeline_config EXCEPT
               !.max_batch_size = oom.original_max_batch_size]
    /\ search' = [search EXCEPT !.ret = "oom_message"]
    /\ pc' = "find_valid_batch_size"
    /\ UNCHANGED <<registry, validate, model, pinned, emf, hist, outcome>>

\* lines 566-590: take the batch search's pair, compose the message and
\* raise the RuntimeError that carries it
OomRaise ==
    /\ pc = "oom_message"
    /\ oom' = [oom EXCEPT
                  !.found_valid_max_batch_size = search.found,
                  !.inferred_max_batch_size = search.inferred,
                  !.error_msg =
                      GenerateOomErrorMessage(
                          [total_size |-> emf.total_size,
                           original_free_memory |-> emf.free_memory,
                           user_provided_max_length |->
                               emf.user_provided_max_length,
                           user_provided_max_batch_size |->
                               emf.user_provided_max_batch_size,
                           found_valid_max_length |->
                               oom.found_valid_max_length,
                           found_valid_max_batch_size |-> search.found,
                           inferred_max_length |-> oom.inferred_max_length,
                           inferred_max_batch_size |-> search.inferred,
                           inferred_max_length_compatible_batch_size |->
                               oom.inferred_max_length_compatible_batch_size,
                           original_max_length |->
                               oom.original_max_length])]
    /\ outcome' = "CapacityExceeded"
    /\ pc' = "done"
    /\ UNCHANGED <<registry, validate, model, pipeline_config, pinned, emf, search, hist>>

----------------------------------------------------------------------------
(* One resolution *)

Next ==
    \/ QueryDeviceStats
    \/ EstimateBudget
    \/ AutoShrinkReturn
    \/ ReportAndCheck
    \/ RaiseOomError
    \/ FindValidMaxLengthEntry
    \/ FindValidMaxLengthStep
    \/ OomAfterMaxLength
    \/ FindValidBatchSizeEntry
    \/ FindValidBatchSizeStep
    \/ OomRaise

Spec == Init /\ [][Next]_vars

----------------------------------------------------------------------------
(* Two resolutions of equal inputs by one registry: after the first ended, *)
(* _estimate_memory_footprint is called again with a config equal to the   *)
(* one the first call was given, the same architecture and devices that    *)
(* answer as before                                                        *)

\* the second call: the locals of lines 386-463 and of _raise_oom_error are
\* new, the config is the caller's again
Rerun ==
    /\ pc = "done"
    /\ hist.run = 1
    /\ pipeline_config' =
           [max_length |-> pinned.max_length,
            max_batch_size |-> pinned.max_batch_size,
            device_memory_utilization |->
                pipeline_config.device_memory_utilization,
            available_cache_memory |-> None,
            architecture |-> pipeline_config.architecture,
            engine |-> pipeline_config.engine,
            quantization_encoding |-> pipeline_config.quantization_encoding]
    /\ emf' = NoLocals
    /\ oom' = NoOom
    /\ search' = NoSearch
    /\ hist' = [NoHist EXCEPT
                   !.run = 2,
                   !.first = [free_memory |-> emf.free_memory,
                              model_weights_size |-> emf.model_weights_size,
                              ceiling |-> emf.ceiling,
                              outcome |-> outcome,
                              max_length |-> pipeline_config.max_length,
                              max_batch_size |->
                                  pipeline_config.max_batch_size]]
    /\ outcome' = "running"
    /\ pc' = "start"
    /\ UNCHANGED <<registry, validate, model, pinned>>

\* in the second resolution the devices (lines 388-391) and the cost model
\* (lines 405, 418) answer what they answered in the first
SameAnswers ==
    hist.run = 2
    => /\ emf'.free_memory \in {None, hist.first.free_memory}
       /\ emf'.model_weights_size \in {None, hist.first.model_weights_size}
       /\ emf'.ceiling \in {None, hist.first.ceiling}
       /\ outcome' = "Degraded" => hist.first.outcome = "Degraded"

TwiceNext ==
    \/ Next /\ SameAnswers
    \/ Rerun

\* the inputs of the pair of resolutions: those of one resolution, with a
\* cache size that grows with the batch size and an inferred batch size
\* that is 1 or shrinks with the length
TwiceInit ==
    /\ Init
    /\ model.batchCost = LinearBatchCost
    /\ model.inferTable \in {InferOne, InferShrinking}

TwiceSpec == TwiceInit /\ [][TwiceNext]_vars

----------------------------------------------------------------------------
(* The two searches on their own: any initial value up to MaxSearchLen, any *)
(* pattern of fitting and non-fitting trial values along the searched axis  *)

SearchLens == 1..MaxSearchLen

\* callers' return points of the searches
LenSearchReturned ==
    pc \in {"auto_shrink_return", "oom_after_max_length", "max_length_returned"}
BatchSearchReturned ==
    /\ pc \in {"oom_message", "batch_size_returned"}
    /\ emf.user_provided_max_batch_size

InferAlternating == [l \in SearchLens |-> 1 + (l % 2)]

SearchInitLength ==
    /\ pc = "find_valid_max_length"
    /\ model \in [lenCost : [SearchLens -> 0..1],
                  batchCost : {[b \in SearchLens |-> b]},
                  inferTable : {[l \in SearchLens |-> 1], InferAlternating}]
    /\ \E n \in SearchLens, b \in 1..2 :
          pipeline_config = [max_length |-> n, max_batch_size |-> b,
                             device_memory_utilization |-> [num |-> 1, den |-> 1],
                             available_cache_memory |-> None,
                             architecture |-> Absent, engine |-> Absent,
                             quantization_encoding |-> Absent]
    /\ \E upb \in BOOLEAN, avail \in 0..1 :
          /\ emf = [NoLocals EXCEPT
                       !.user_provided_max_batch_size = upb,
                       !.available_kv_cache_memory = avail]
          \* unread tables and values are kept at one value
          /\ upb => model.inferTable = [l \in SearchLens |-> 1]
          /\ ~upb => pipeline_config.max_batch_size = 1
    /\ oom = NoOom
    /\ search = [NoSearch EXCEPT !.ret = "max_length_returned"]

SearchInitBatch ==
    /\ pc = "find_valid_batch_size"
    /\ model \in [lenCost : {[l \in SearchLens |-> 1]},
                  batchCost : [SearchLens -> 0..1],
                  inferTable : {[l \in SearchLens |-> 1]}]
    /\ \E n \in SearchLens, l \in 1..2 :
          /\ pipeline_config = [max_length |-> 1, max_batch_size |-> n,
                                device_memory_utilization |-> [num |-> 1, den |-> 1],
                                available_cache_memory |-> None,
                                architecture |-> Absent, engine |-> Absent,
                                quantization_encoding |-> Absent]
          /\ oom = [NoOom EXCEPT !.original_max_length = l,
                                 !.original_max_batch_size = n]
    /\ \E upb \in BOOLEAN, avail \in 0..1 :
          emf = [NoLocals EXCEPT
                    !.user_provided_max_batch_size = upb,
                    !.available_kv_cache_memory = avail]
    /\ search = [NoSearch EXCEPT !.ret = "batch_size_returned"]

SearchInit ==
    /\ SearchInitLength \/ SearchInitBatch
    /\ pinned = [max_length |-> pipeline_config.max_length,
                 max_batch_size |-> pipeline_config.max_batch_size]
    /\ registry = NoRegistry
    /\ validate = NoValidate
    /\ hist = NoHist
    /\ outcome = "running"

SearchNext ==
    \/ FindValidMaxLengthEntry
    \/ FindValidMaxLengthStep
    \/ FindValidBatchSizeEntry
    \/ FindValidBatchSizeStep

SearchSpec == SearchInit /\ [][SearchNext]_vars

----------------------------------------------------------------------------
(* What the length search is measured against *)

\* the batch size a trial of length l is evaluated with: the pinned one, or
\* the one the cost model infers for l
TrialBatch(l) ==
    IF emf.user_provided_max_batch_size THEN pinned.max_batch_size
    ELSE model.inferTable[l]

\* the cache size the search sees at length l
TrialCost(l) == model.lenCost[l] * model.batchCost[TrialBatch(l)]

LenFits(l) == TrialCost(l) <= emf.available_kv_cache_memory

FeasibleLens(n) == {l \in 1..n : LenFits(l)}

MonotoneInLength(n) ==
    \A l1, l2 \in 1..n : l1 <= l2 => TrialCost(l1) <= TrialCost(l2)

SetMax(S) == CHOOSE x \in S : \A y \in S : y <= x

RECURSIVE CeilLog2(_)
CeilLog2(n) == IF n <= 1 THEN 0 ELSE 1 + CeilLog2((n + 1) \div 2)

----------------------------------------------------------------------------
(* What the batch-size search is measured against *)

\* the cache size the search sees at batch size b: the length is the
\* original_max_length its caller passed
BatchCostAt(b) ==
    calculate_kv_cache_size(
        [pipeline_config EXCEPT !.max_length = oom.original_max_length,
                                !.max_batch_size = b])

BatchFits(b) == BatchCostAt(b) <= emf.available_kv_cache_memory

FeasibleBatches(n) == {b \in 1..n : BatchFits(b)}

MonotoneInBatch(n) ==
    \A b1, b2 \in 1..n : b1 <= b2 => BatchCostAt(b1) <= BatchCostAt(b2)

----------------------------------------------------------------------------
(* Properties of the searches (checked under SearchSpec) *)

\* C7: for a cost that is monotonic non-decreasing in length, when some
\* length in [1, n] fits and L is the largest one, _find_valid_max_length
\* returns found = true with a length v such that L - 1 <= v <= L.
C7_WithinOneOfLargest ==
    (/\ LenSearchReturned
     /\ MonotoneInLength(search.n0)
     /\ FeasibleLens(search.n0) # {})
    => /\ search.found
       /\ LET L == SetMax(FeasibleLens(search.n0))
          IN  L - 1 <= search.inferred /\ search.inferred <= L

\* the search returned the length just below the largest fitting one
C7_Witness ==
    /\ LenSearchReturned
    /\ MonotoneInLength(search.n0)
    /\ FeasibleLens(search.n0) # {}
    /\ search.n0 >= 5
    /\ search.found
    /\ search.inferred = SetMax(FeasibleLens(search.n0)) - 1

\* C8: whenever _find_valid_max_length returns found = true with (length,
\* companion batch size), the cache size at exactly that pair is within the
\* available cache memory, 1 <= length <= the initial max_length, and the
\* config's max_length and max_batch_size are the returned pair; for any
\* cost function.
C8_FoundIsSound ==
    (LenSearchReturned /\ search.found)
    => /\ calculate_kv_cache_size(
              [pipeline_config EXCEPT !.max_length = search.inferred,
                                      !.max_batch_size = search.companion])
          <= emf.available_kv_cache_memory
       /\ 1 <= search.inferred /\ search.inferred <= search.n0
       /\ pipeline_config.max_length = search.inferred
       /\ pipeline_config.max_batch_size = search.companion

\* found under a cost that is not monotonic, with an inferred companion
C8_Witness ==
    /\ LenSearchReturned
    /\ search.found
    /\ ~MonotoneInLength(search.n0)
    /\ ~emf.user_provided_max_batch_size
    /\ search.companion = 2
    /\ search.inferred > 1

\* C9: with a monotonic cost and a pinned batch size, _find_valid_max_length
\* returns found = false exactly when the cache size at length 1 does not
\* fit.
C9_NotFoundIffOneDoesNotFit ==
    (/\ LenSearchReturned
     /\ emf.user_provided_max_batch_size
     /\ MonotoneInLength(search.n0))
    => (~search.found <=> ~LenFits(1))

\* not found, from an interval that had to be halved
C9_Witness ==
    /\ LenSearchReturned
    /\ emf.user_provided_max_batch_size
    /\ MonotoneInLength(search.n0)
    /\ ~search.found
    /\ search.n0 >= 3

\* C10: both searches end, for every initial value n >= 1 and every cost
\* function, after at most ceil(log2(n)) + 1 cache-size evaluations: a
\* search still in its loop has made fewer evaluations than that (each
\* iteration makes one), a search that returned has made at most that many.
C10_EvaluationsBounded ==
    /\ pc \in {"max_length_loop", "batch_size_loop"}
           => search.evals < CeilLog2(search.n0) + 1
    /\ (LenSearchReturned \/ BatchSearchReturned)
           => /\ search.evals >= 1
              /\ search.evals <= CeilLog2(search.n0) + 1

\* a batch-size search that needed every evaluation the bound allows
C10_Witness ==
    /\ BatchSearchReturned
    /\ search.n0 >= 6
    /\ search.evals = CeilLog2(search.n0) + 1
    /\ \E b1, b2 \in 1..search.n0 :
          b1 < b2 /\ model.batchCost[b1] > model.batchCost[b2]

\* C11: when the batch size is not pinned, _find_valid_batch_size makes no
\* cost evaluation, returns (found = false, -1) and leaves the config's
\* max_length and max_batch_size as they were.
C11_UnpinnedBatchSearchIsNoop ==
    [][(pc = "find_valid_batch_size" /\ ~emf.user_provided_max_batch_size)
       => /\ hist'.nKv = hist.nKv
          /\ hist'.nSearchEvals = hist.nSearchEvals
          /\ search'.evals = 0
          /\ ~search'.found
          /\ search'.inferred = -1
          /\ pipeline_config'.max_length = pipeline_config.max_length
          /\ pipeline_config'.max_batch_size = pipeline_config.max_batch_size
          /\ pc' = search.ret]_vars

\* the batch-size search returned at once for an unpinned batch size above 1
C11_Witness ==
    /\ pc = "batch_size_returned"
    /\ ~emf.user_provided_max_batch_size
    /\ ~search.found
    /\ search.inferred = -1
    /\ hist.nSearchEvals = 0
    /\ pipeline_config.max_batch_size > 1

\* C13: for a pinned batch size B >= 1, when _find_valid_batch_size returns
\* found = true with b, 1 <= b <= B and the cache size at (the fixed length,
\* b) is within the available cache memory; for a cost that is monotonic
\* non-decreasing in batch size, b is the largest fitting batch size or one
\* below it, and found = false is returned only if batch size 1 does not
\* fit.
C13_BatchSearchSoundWithinOne ==
    BatchSearchReturned
    => /\ search.found
              => /\ 1 <= search.inferred /\ search.inferred <= search.n0
                 /\ BatchFits(search.inferred)
       /\ MonotoneInBatch(search.n0)
              => /\ FeasibleBatches(search.n0) # {}
                        => /\ search.found
                           /\ LET L == SetMax(FeasibleBatches(search.n0))
                              IN  /\ L - 1 <= search.inferred
                                  /\ search.inferred <= L
                 /\ ~search.found => ~BatchFits(1)

\* the batch-size search returned the batch size just below the largest
\* fitting one, at the longer of the fixed lengths
C13_Witness ==
    /\ BatchSearchReturned
    /\ MonotoneInBatch(search.n0)
    /\ search.n0 >= 5
    /\ oom.original_max_length = 2
    /\ search.found
    /\ search.inferred = SetMax(FeasibleBatches(search.n0)) - 1

----------------------------------------------------------------------------
(* Properties of a resolution (checked under Spec) *)

Ended == outcome # "running"

\* C1: whenever _estimate_memory_footprint returns normally with device
\* stats readable, weights size plus the cache size of the config's final
\* (max_length, max_batch_size) is at most the total free memory, pinned or
\* not, shrunk or not.
C1_FinalConfigFeasible ==
    outcome = "Success"
    => emf.model_weights_size + calculate_kv_cache_size(pipeline_config)
           <= emf.free_memory

\* a success after the auto-shrink replaced the length and the batch size
C1_Witness ==
    /\ outcome = "Success"
    /\ hist.shrinkFound
    /\ pinned.max_batch_size = None
    /\ pipeline_config.max_length < emf.ceiling
    /\ pipeline_config.max_batch_size = MaxBatch
    /\ calculate_kv_cache_size(pipeline_config) > 0

\* C2: whenever device stats are readable and the weights size alone
\* exceeds total free memory, the resolution ends with the
\* "Weights size exceeds available memory" error, never with another
\* outcome.
C2_WeightsTooLargeRaised ==
    (/\ Ended
     /\ emf.model_weights_size # None
     /\ emf.model_weights_size > emf.free_memory)
    => outcome = "WeightsTooLarge"

\* C3: when the weights size exceeds free memory, neither search has
\* evaluated the cost model at any trial value by the time the
\* "Weights size exceeds available memory" error is raised.
C3_NoSearchBeforeWeightsTooLarge ==
    outcome = "WeightsTooLarge"
    => /\ hist.nSearchEvals = 0
       /\ hist.nLenSearches = 0
       /\ hist.nBatchSearches = 0

\* no weights estimate, no cache estimate, no search
NoBudgeting ==
    /\ hist.nWeights = 0
    /\ hist.nKv = 0
    /\ hist.nLenSearches = 0
    /\ hist.nBatchSearches = 0
    /\ emf.available_kv_cache_memory = None

\* C4 as stated: when the device-stats query fails, the resolution returns
\* with max batch size 1 and max length the model's ceiling, without a
\* fatal error and without budgeting.
C4_DegradedUsesStaticDefaults ==
    outcome = "Degraded"
    => /\ pipeline_config.max_batch_size = 1
       /\ pipeline_config.max_length = emf.ceiling
       /\ NoBudgeting

\* C4 as amended: when the device-stats query fails, the resolution returns
\* without a fatal error and without budgeting; a max batch size the caller
\* left unset becomes 1 and a max length the caller left unset becomes the
\* model's ceiling, while a value the caller pinned is kept.
C4_DegradedDefaultsOnlyUnset ==
    outcome = "Degraded"
    => /\ pipeline_config.max_batch_size =
              (IF pinned.max_batch_size = None THEN 1
               ELSE pinned.max_batch_size)
       /\ pipeline_config.max_length =
              (IF pinned.max_length = None THEN emf.ceiling
               ELSE pinned.max_length)
       /\ pinned.max_length # None => emf.ceiling = None
       /\ NoBudgeting

\* the degraded path with a pinned batch size other than 1 and no pinned
\* length
C4_Witness ==
    /\ outcome = "Degraded"
    /\ pinned.max_batch_size = MaxBatch
    /\ pinned.max_length = None
    /\ pipeline_config.max_length = emf.ceiling
    /\ emf.ceiling > 1

\* C5: on a successful resolution a pinned max length is the max length
\* afterwards and no length search was run; a pinned max batch size is the
\* batch size afterwards, also when the auto-shrink of max length ran.
C5_PinnedValuesKept ==
    outcome \in {"Success", "Degraded"}
    => /\ pinned.max_length # None
              => /\ pipeline_config.max_length = pinned.max_length
                 /\ hist.nLenSearches = 0
       /\ pinned.max_batch_size # None
              => pipeline_config.max_batch_size = pinned.max_batch_size

\* a success with a pinned batch size after the auto-shrink cut the length
C5_Witness ==
    /\ outcome = "Success"
    /\ pinned.max_batch_size = MaxBatch
    /\ hist.shrinkFound
    /\ pipeline_config.max_length < emf.ceiling

\* the case of C6: max length not pinned, weights within free memory, the
\* config at the ceiling over free memory, some length up to the ceiling
\* fitting the available cache memory, cost monotonic in length
AutoShrinkCase ==
    /\ Ended
    /\ outcome # "Degraded"
    /\ pinned.max_length = None
    /\ emf.model_weights_size <= emf.free_memory
    /\ emf.model_weights_size + TrialCost(emf.ceiling) > emf.free_memory
    /\ FeasibleLens(emf.ceiling) # {}
    /\ MonotoneInLength(emf.ceiling)

\* C6 as stated, on the resolutions that succeed: in that case the
\* resolved max length is the largest length up to the ceiling whose cache
\* size fits the available cache memory.
C6_AutoShrinkFindsLargest ==
    (AutoShrinkCase /\ outcome = "Success")
    => pipeline_config.max_length = SetMax(FeasibleLens(emf.ceiling))

\* C6 as amended: in that case the max length the resolution leaves is the
\* largest fitting length L or L - 1, and the resolution succeeds unless
\* free memory is 0, where it ends in the UnboundLocalError of the report
\* (free_memory_str, see C25) after the shrink.
C6_AutoShrinkWithinOne ==
    AutoShrinkCase
    => /\ outcome = "Success" \/ (outcome = "UnboundLocalError"
                                   /\ emf.free_memory = 0)
       /\ emf.free_memory > 0 => outcome = "Success"
       /\ hist.shrinkFound
       /\ LET L == SetMax(FeasibleLens(emf.ceiling))
          IN  /\ L - 1 <= pipeline_config.max_length
              /\ pipeline_config.max_length <= L

\* a success whose length is one below the largest fitting length
C6_Witness ==
    /\ AutoShrinkCase
    /\ outcome = "Success"
    /\ pipeline_config.max_length = SetMax(FeasibleLens(emf.ceiling)) - 1

\* the max length of the resolution before any search ran: the pinned value,
\* or the model's ceiling when the caller left it unset
PreSearchMaxLength ==
    IF pinned.max_length # None THEN pinned.max_length ELSE emf.ceiling

\* C12: every cost evaluation of _find_valid_batch_size is made at the max
\* length the config had before any feasibility search of this resolution
\* ran (the pinned value, or the ceiling when max length is not pinned),
\* whatever trial values earlier length searches left in the config.
C12_BatchSearchAtPreSearchLength ==
    pc = "batch_size_loop" => pipeline_config.max_length = PreSearchMaxLength

----------------------------------------------------------------------------
(* Properties of the CapacityExceeded message (checked under Spec) *)

\* the writes between the opening and the closing full stop
ErrorSuggestions == SubSeq(oom.error_msg, 2, Len(oom.error_msg) - 1)

\* a write that puts at least one value into its text
NamesValue(w) == w.args # <<>>

BothPinnedBothFound ==
    /\ outcome = "CapacityExceeded"
    /\ pinned.max_length # None
    /\ pinned.max_batch_size # None
    /\ oom.found_valid_max_length
    /\ oom.found_valid_max_batch_size

\* C15 as stated: with both values pinned and both searches successful, the
\* message recommends reducing max length to the length search's result
\* together with reducing batch size to the batch search's result.
C15_RecommendsBothResultsTogether ==
    BothPinnedBothFound
    => \E i \in 1..Len(ErrorSuggestions) :
          ErrorSuggestions[i].args =
              <<oom.inferred_max_length, oom.inferred_max_batch_size>>

\* C15 as amended: in that case the message offers two alternatives joined
\* by " or ": the length search's result X named together with the batch
\* size that search ran with, which is the pinned batch size, or the batch
\* search's result Y alone; X is below the pinned length and Y is below the
\* pinned batch size.
C15_OffersLengthOrBatch ==
    BothPinnedBothFound
    => /\ ErrorSuggestions =
              <<ReduceLengthAndBatch(oom.inferred_max_length,
                                     pinned.max_batch_size),
                Or,
                ReduceBatch(oom.inferred_max_batch_size)>>
       /\ oom.inferred_max_length < pinned.max_length
       /\ oom.inferred_max_batch_size < pinned.max_batch_size

\* both searches found a value, the length search one above 1
C15_Witness ==
    /\ BothPinnedBothFound
    /\ oom.inferred_max_length > 1
    /\ pinned.max_batch_size = MaxBatch

\* the cache size of the pinned (max_length, max_batch_size)
PinnedCost ==
    model.lenCost[pinned.max_length] * model.batchCost[pinned.max_batch_size]

\* both values pinned, device stats read, weights within free memory
BothPinnedWeightsFit ==
    /\ Ended
    /\ outcome # "Degraded"
    /\ pinned.max_length # None
    /\ pinned.max_batch_size # None
    /\ emf.model_weights_size <= emf.free_memory

\* C16 as stated, where free memory is not 0: with both values pinned,
\* weights that fit and a required cache size above the available cache
\* memory, the resolution ends in CapacityExceeded.
C16_CacheOverBudgetRaises ==
    (/\ BothPinnedWeightsFit
     /\ emf.free_memory > 0
     /\ PinnedCost > emf.available_kv_cache_memory)
    => outcome = "CapacityExceeded"

\* C16 as amended: with both values pinned, weights that fit and weights
\* plus required cache above free memory, the resolution ends in
\* CapacityExceeded (with free memory 0: in the UnboundLocalError of the
\* report, see C25) after one length search, every trial of which has the
\* pinned batch size, and one batch search, every trial of which has the
\* pinned length; when both searches succeed with X and Y the message offers
\* X (named with the pinned batch size) or Y, and the cache sizes at
\* (X, pinned batch size) and at (pinned length, Y) are within the available
\* cache memory.
C16_ScenarioC ==
    /\ (pc = "max_length_loop" /\ pinned.max_batch_size # None)
           => pipeline_config.max_batch_size = pinned.max_batch_size
    /\ (pc = "batch_size_loop" /\ pinned.max_length # None)
           => pipeline_config.max_length = pinned.max_length
    /\ (BothPinnedWeightsFit
        /\ emf.model_weights_size + PinnedCost > emf.free_memory)
       => IF emf.free_memory = 0 THEN outcome = "UnboundLocalError"
          ELSE /\ outcome = "CapacityExceeded"
               /\ hist.nLenSearches = 1
               /\ hist.nBatchSearches = 1
               /\ (oom.found_valid_max_length
                   /\ oom.found_valid_max_batch_size)
                  => /\ ErrorSuggestions =
                            <<ReduceLengthAndBatch(oom.inferred_max_length,
                                                   pinned.max_batch_size),
                              Or,
                              ReduceBatch(oom.inferred_max_batch_size)>>
                     /\ model.lenCost[oom.inferred_max_length]
                            * model.batchCost[pinned.max_batch_size]
                        <= emf.available_kv_cache_memory
                     /\ model.lenCost[pinned.max_length]
                            * model.batchCost[oom.inferred_max_batch_size]
                        <= emf.available_kv_cache_memory

\* Scenario C with weights in memory, the longest pinned length and both
\* searches successful
C16_Witness ==
    /\ BothPinnedWeightsFit
    /\ outcome = "CapacityExceeded"
    /\ emf.model_weights_size > 0
    /\ pinned.max_length = MaxLen
    /\ oom.found_valid_max_length
    /\ oom.found_valid_max_batch_size
    /\ Len(ErrorSuggestions) = 3

\* C17: when neither max length nor max batch size was set by the user and
\* the config does not fit (weights within free memory), the message of the
\* error recommends values for both max length and max batch size.
C17_BothDefaultedRecommendsBoth ==
    (/\ outcome = "CapacityExceeded"
     /\ pinned.max_length = None
     /\ pinned.max_batch_size = None)
    => \E i \in 1..Len(ErrorSuggestions) :
          ErrorSuggestions[i] =
              SetLengthAndBatch(
                  oom.inferred_max_length,
                  oom.inferred_max_length_compatible_batch_size)

\* C18: with max length defaulted and max batch size pinned, the length
\* search of _raise_oom_error never reports found (the auto-shrink search
\* ran before it and failed), so the message of every CapacityExceeded
\* error names no max length: its only suggestion with a value, if any, is
\* the batch search's max batch size.
C18_DefaultedLengthNeverSuggested ==
    (/\ outcome = "CapacityExceeded"
     /\ pinned.max_length = None
     /\ pinned.max_batch_size # None)
    => /\ hist.shrinkRan /\ ~hist.shrinkFound
       /\ hist.nLenSearches = 2
       /\ ~oom.found_valid_max_length
       /\ ErrorSuggestions =
              (IF oom.found_valid_max_batch_size
               THEN <<ReduceBatch(oom.inferred_max_batch_size)>>
               ELSE <<GenericFallback>>)

\* the error after a failed auto-shrink from a ceiling above 2, with a
\* batch size suggested
C18_Witness ==
    /\ outcome = "CapacityExceeded"
    /\ pinned.max_length = None
    /\ pinned.max_batch_size # None
    /\ emf.ceiling > 2
    /\ oom.found_valid_max_batch_size
    /\ ErrorSuggestions = <<ReduceBatch(1)>>

\* C19: with max length pinned and max batch size defaulted, when the
\* length search finds X the message recommends reducing max length to X
\* and reports the batch size C it supports, C being the batch size the
\* cost model infers at length X and the cache size at (X, C) being within
\* the available cache memory; no suggestion of a batch size alone is
\* given.
C19_PinnedLengthReportsSupportedBatch ==
    (/\ outcome = "CapacityExceeded"
     /\ pinned.max_length # None
     /\ pinned.max_batch_size = None
     /\ oom.found_valid_max_length)
    => LET X == oom.inferred_max_length
           C == oom.inferred_max_length_compatible_batch_size
       IN  /\ ErrorSuggestions = <<ReduceLengthSupports(X, C)>>
           /\ 1 <= X /\ X < pinned.max_length
           /\ C = model.inferTable[X]
           /\ model.lenCost[X] * model.batchCost[C]
                  <= emf.available_kv_cache_memory
           /\ ~oom.found_valid_max_batch_size
           /\ hist.nBatchSearches = 0

\* a suggested length with a supported batch size that differs from the
\* batch size inferred at the pinned length
C19_Witness ==
    /\ outcome = "CapacityExceeded"
    /\ pinned.max_length # None
    /\ pinned.max_batch_size = None
    /\ oom.found_valid_max_length
    /\ oom.inferred_max_length_compatible_batch_size
           # model.inferTable[pinned.max_length]
    /\ model.lenCost[oom.inferred_max_length] = 1

----------------------------------------------------------------------------
(* The high-water mark *)

HighWaterWarned == "HighWaterMark" \in hist.warnings

\* a resolution that read the device stats and ended with a total within
\* free memory
EndedWithinFreeMemory ==
    /\ Ended
    /\ emf.total_size # None
    /\ emf.total_size <= emf.free_memory

\* C20 as stated, where free memory is not 0: a resolution whose total is
\* within free memory and at least 95% of it, a total of exactly 95%
\* included, succeeds and logs the high-water-mark warning.
C20_WarnsFromLimit ==
    (/\ EndedWithinFreeMemory
     /\ emf.free_memory > 0
     /\ VramUsageLimitDen * emf.total_size
            >= VramUsageLimitNum * emf.free_memory)
    => outcome = "Success" /\ HighWaterWarned

\* C20 as amended: a resolution whose total is within free memory succeeds
\* (with free memory 0: ends in the UnboundLocalError of the report, see
\* C25) and logs the high-water-mark warning exactly when the total is
\* strictly above 95% of free memory; the warning is never logged together
\* with a fatal error, nor for a total of 95% of free memory or less.
C20_WarnsAboveLimit ==
    /\ EndedWithinFreeMemory
           => IF emf.free_memory = 0 THEN outcome = "UnboundLocalError"
              ELSE /\ outcome = "Success"
                   /\ HighWaterWarned
                          <=> VramUsageLimitDen * emf.total_size
                                  > VramUsageLimitNum * emf.free_memory
    /\ HighWaterWarned
           => /\ outcome = "Success"
              /\ emf.total_size <= emf.free_memory
              /\ VramUsageLimitDen * emf.total_size
                     > VramUsageLimitNum * emf.free_memory

\* a success with the warning, one byte above the limit of a free memory
\* whose limit is a whole number of bytes
C20_Witness ==
    /\ outcome = "Success"
    /\ HighWaterWarned
    /\ emf.free_memory = VramUsageLimitDen
    /\ emf.total_size = VramUsageLimitNum + 1
    /\ emf.actual_kv_cache_size > 0

----------------------------------------------------------------------------
(* The cache budget *)

\* C21: the available cache memory that every cost-model call and search of
\* a resolution is given is floor(max(0, free memory - weights size) *
\* utilization): at least 0, 0 when the weights are at least the free
\* memory, at most free memory - weights size when the weights are within
\* free memory, and one value from the moment it is computed to the end of
\* the resolution.
C21_AvailableCacheMemory ==
    emf.model_weights_size # None
    => LET a == emf.available_kv_cache_memory
           u == pipeline_config.device_memory_utilization
           room == IF emf.free_memory > emf.model_weights_size
                   THEN emf.free_memory - emf.model_weights_size ELSE 0
       IN  /\ a >= 0
           /\ a * u.den <= room * u.num
           /\ room * u.num < (a + 1) * u.den
           /\ emf.model_weights_size >= emf.free_memory => a = 0
           /\ emf.model_weights_size <= emf.free_memory
                  => a <= emf.free_memory - emf.model_weights_size

\* a search that ran on a budget rounded down to 0 from half a byte
C21_Witness ==
    /\ emf.model_weights_size # None
    /\ emf.model_weights_size > 0
    /\ emf.free_memory - emf.model_weights_size = 1
    /\ pipeline_config.device_memory_utilization.den = 2
    /\ emf.available_kv_cache_memory = 0
    /\ hist.nSearchEvals >= 2

----------------------------------------------------------------------------
(* Two resolutions of equal inputs (checked under TwiceSpec) *)

----------------------------------------------------------------------------
(* The resolved config (checked under Spec) *)

\* C23: after every successful resolution, normal or degraded, max length
\* and max batch size are both set and are integers >= 1 (pinned values,
\* ceilings and inferred batch sizes being >= 1); a max length that the
\* auto-shrink chose lies in [1, ceiling].
C23_ResolvedValuesPositive ==
    outcome \in {"Success", "Degraded"}
    => /\ pipeline_config.max_length # None
       /\ pipeline_config.max_length \in Nat
       /\ pipeline_config.max_length >= 1
       /\ pipeline_config.max_batch_size # None
       /\ pipeline_config.max_batch_size \in Nat
       /\ pipeline_config.max_batch_size >= 1
       /\ hist.shrinkFound
              => /\ pipeline_config.max_length = search.inferred
                 /\ pipeline_config.max_length <= emf.ceiling

\* a success whose length the auto-shrink cut from the largest ceiling to 1
C23_Witness ==
    /\ outcome = "Success"
    /\ hist.shrinkFound
    /\ pinned.max_length = None
    /\ pinned.max_batch_size = None
    /\ emf.ceiling = MaxLen
    /\ pipeline_config.max_length = 1

\* C24 as stated, on the resolutions that succeed: a successful auto-shrink
\* changes only max length; the max batch size after it is the one the
\* config had when the shrink started, the pinned value or the value
\* inferred at the ceiling.
C24_ShrinkKeepsBatchSize ==
    (hist.shrinkFound /\ outcome = "Success")
    => pipeline_config.max_batch_size =
           (IF pinned.max_batch_size # None THEN pinned.max_batch_size
            ELSE model.inferTable[emf.ceiling])

\* C24 as amended: a successful auto-shrink sets max length to the length
\* it found and keeps a pinned max batch size; a max batch size that is not
\* pinned becomes the one the cost model infers at the length found, which
\* need not be the one inferred at the ceiling.
C24_ShrinkReinfersUnpinnedBatchSize ==
    hist.shrinkFound
    => /\ pipeline_config.max_length = search.inferred
       /\ pipeline_config.max_batch_size =
              (IF pinned.max_batch_size # None THEN pinned.max_batch_size
               ELSE model.inferTable[pipeline_config.max_length])
       /\ pipeline_config.max_batch_size = search.companion

\* a successful shrink after which the batch size is not the one inferred
\* at the ceiling
C24_Witness ==
    /\ hist.shrinkFound
    /\ outcome = "Success"
    /\ pinned.max_batch_size = None
    /\ pipeline_config.max_batch_size # model.inferTable[emf.ceiling]
    /\ pipeline_config.max_batch_size = model.inferTable[pipeline_config.max_length]

\* C25: every resolution ends in one of four outcomes: success, degraded
\* success, WeightsTooLarge or CapacityExceeded; for every readable free
\* memory >= 0, 0 bytes included, _estimate_memory_footprint raises nothing
\* else.
C25_FourOutcomes ==
    Ended
    => outcome \in {"Success", "Degraded", "WeightsTooLarge",
                    "CapacityExceeded"}

\* C26: when the resolution raises CapacityExceeded, a max length and a max
\* batch size that the user pinned still have their pinned values in the
\* config; no trial value of a search is left in their place.
C26_PinnedValuesSurviveError ==
    outcome = "CapacityExceeded"
    => /\ pinned.max_length # None
              => pipeline_config.max_length = pinned.max_length
       /\ pinned.max_batch_size # None
              => pipeline_config.max_batch_size = pinned.max_batch_size

\* C27: after a successful resolution that read the device stats, the cache
\* figure recorded on the config (_available_cache_memory) is the cache
\* size of the final (max_length, max_batch_size) and so is within the
\* available cache memory, also when the auto-shrink replaced the max
\* length.
C27_RecordedCacheIsFinalCache ==
    outcome = "Success"
    => /\ pipeline_config.available_cache_memory
              = calculate_kv_cache_size(pipeline_config)
       /\ pipeline_config.available_cache_memory
              <= emf.available_kv_cache_memory

----------------------------------------------------------------------------
(* The registry on its own: a registry constructed from a list of          *)
(* architectures, then any calls of register, reset and                    *)
(* register_all_models                                                     *)

\* the lists a registry is constructed from
InitialLists == UNION {[1..k -> Archs] : k \in 0..MaxInitial}

Register ==
    /\ pc = "registry"
    /\ Len(registry.calls) < MaxCalls
    /\ \E architecture \in Archs : registry' = register(registry, architecture)
    /\ UNCHANGED <<validate, model, pipeline_config, pinned, emf, oom, search,
                   hist, outcome, pc>>

Reset ==
    /\ pc = "registry"
    /\ Len(registry.calls) < MaxCalls
    /\ registry' = reset(registry)
    /\ UNCHANGED <<validate, model, pipeline_config, pinned, emf, oom, search,
                   hist, outcome, pc>>

RegisterAllModels ==
    /\ pc = "registry"
    /\ Len(registry.calls) + Len(AllModels) <= MaxCalls
    /\ registry' = RegisterEach(registry, AllModels)
    /\ UNCHANGED <<validate, model, pipeline_config, pinned, emf, oom, search,
                   hist, outcome, pc>>

RegistryInit ==
    /\ pc = "registry"
    /\ \E architectures \in InitialLists :
          registry = PipelineRegistry(architectures)
    /\ validate = NoValidate
    /\ model = [lenCost |-> [l \in Lens |-> 0],
                batchCost |-> LinearBatchCost, inferTable |-> InferOne]
    /\ pipeline_config =
           [max_length |-> None, max_batch_size |-> None,
            device_memory_utilization |-> [num |-> 1, den |-> 1],
            available_cache_memory |-> None,
            architecture |-> Absent, engine |-> Absent,
            quantization_encoding |-> Absent]
    /\ pinned = [max_length |-> None, max_batch_size |-> None]
    /\ emf = NoLocals
    /\ oom = NoOom
    /\ search = NoSearch
    /\ hist = NoHist
    /\ outcome = "running"

RegistryNext ==
    \/ Register
    \/ Reset
    \/ RegisterAllModels

RegistrySpec == RegistryInit /\ [][RegistryNext]_vars

\* the calls made before call i, from the last reset among them on
ResetsBefore(i) == {j \in 1..(i - 1) : registry.calls[j].op = "reset"}
RegistersSince(i) ==
    {j \in 1..(i - 1) :
        /\ registry.calls[j].op = "register"
        /\ \A k \in ResetsBefore(i) : k < j}

\* the names present when call i is made, and the architecture each maps
\* to if every name keeps the first architecture registered under it
ConstructedBefore(i) ==
    IF ResetsBefore(i) = {} THEN DOMAIN registry.constructed ELSE {}
NamesBefore(i) ==
    ConstructedBefore(i)
    \cup {registry.calls[j].architecture.name : j \in RegistersSince(i)}
FirstBefore(i, n) ==
    IF n \in ConstructedBefore(i)
    THEN registry.constructed[n]
    ELSE LET first == CHOOSE j \in RegistersSince(i) :
                         /\ registry.calls[j].architecture.name = n
                         /\ \A k \in RegistersSince(i) :
                               registry.calls[k].architecture.name = n
                               => j <= k
         IN  registry.calls[first].architecture

\* C28: the registry never overrides an architecture: a register of a name
\* that is present raises ValueError and changes nothing, so after any
\* calls of register and reset each name maps to the first architecture
\* registered under it since the last reset (or to the one the registry
\* was constructed with, when it was not reset), and after a reset the
\* registry is empty and the same names can be registered again
C28_NeverOverrides ==
    LET now == Len(registry.calls) + 1
    IN  /\ DOMAIN registry.architectures = NamesBefore(now)
        /\ \A n \in NamesBefore(now) :
              registry.architectures[n] = FirstBefore(now, n)
        /\ \A i \in DOMAIN registry.calls :
              /\ registry.calls[i].op = "register"
                 => (registry.calls[i].raised
                     <=> registry.calls[i].architecture.name \in NamesBefore(i))
              /\ registry.calls[i].op = "reset"
                 => /\ ~registry.calls[i].raised
                    /\ NamesBefore(i + 1) = {}

\* a register was refused, the registry was reset, and the refused
\* architecture was then registered under the same name
C28_Witness ==
    \E i, j, k \in DOMAIN registry.calls :
        /\ i < j /\ j < k
        /\ registry.calls[i].op = "register" /\ registry.calls[i].raised
        /\ registry.calls[j].op = "reset"
        /\ registry.calls[k].op = "register" /\ ~registry.calls[k].raised
        /\ registry.calls[k].architecture = registry.calls[i].architecture
        /\ registry.architectures[registry.calls[k].architecture.name]
               = registry.calls[i].architecture

----------------------------------------------------------------------------
(* validate_pipeline_config: the checks of lines 158-373, then the         *)
(* resolution above (line 375), then lines 377-379                         *)

\* lines 131-150: the architecture registered under the config's name when
\* the engine is unset or MAX, None otherwise
architecture_details(reg, cfg) ==
    IF cfg.architecture = Absent
    THEN NoArch
    ELSE IF cfg.engine = Absent \/ cfg.engine = MAX
         THEN IF cfg.architecture \in DOMAIN reg.architectures
              THEN reg.architectures[cfg.architecture]
              ELSE NoArch
         ELSE NoArch

\* lines 158-159: update_architecture is a method of the config; all that
\* its caller says of it is that it updates the architecture, and the
\* engine, so it may leave any value in either
UpdateArchitecture ==
    /\ pc = "validate"
    /\ \E a \in ArchNames \cup {Absent}, e \in Engines \cup {Absent} :
          /\ pipeline_config' =
                 [pipeline_config EXCEPT !.architecture = a, !.engine = e]
          /\ validate' = [validate EXCEPT !.engine = e]
    /\ pc' = "architecture_details"
    /\ UNCHANGED <<registry, model, pinned, emf, oom, search, hist, outcome>>

\* lines 161-181: without an architecture, ValueError when the engine is
\* MAX and the fallback to HuggingFace otherwise
LookupArchitecture ==
    /\ pc = "architecture_details"
    /\ LET arch == architecture_details(registry, pipeline_config)
       IN  IF arch = NoArch /\ pipeline_config.engine = MAX
           THEN /\ validate' = [validate EXCEPT !.ret = "ValueError"]
                /\ pc' = "returned"
                /\ UNCHANGED pipeline_config
           ELSE IF arch = NoArch
           THEN /\ pipeline_config' =
                       [pipeline_config EXCEPT !.engine = HUGGINGFACE]
                /\ validate' = [validate EXCEPT !.ret = "fallback"]
                /\ pc' = "returned"
           ELSE /\ validate' = [validate EXCEPT !.arch = arch]
                /\ pc' = "encoding"
                /\ UNCHANGED pipeline_config
    /\ UNCHANGED <<registry, model, pinned, emf, oom, search, hist, outcome>>

\* what lines 188-256 read besides the config's encoding: whether a
\* weight_path is given, whether the format is pytorch, whether the first
\* file is local and a .safetensors file, the encoding its name (or the
\* repository) gives it, the encodings of the repository, whether the
\* first device is an accelerator
EncodingInputs ==
    [weight_path : BOOLEAN, pytorch : BOOLEAN, local : BOOLEAN,
     safetensors : BOOLEAN, file_encoding : Encodings \cup {Absent},
     repo_encodings : SUBSET Encodings, accelerator : BOOLEAN]

\* lines 188-256: the config's encoding after them, or "ValueError"
EncodingAfter(encoding, arch, in) ==
    IF in.weight_path /\ encoding # Absent /\ ~in.pytorch
    THEN IF in.file_encoding # Absent /\ in.file_encoding # encoding
         THEN "ValueError"
         ELSE encoding
    ELSE IF in.weight_path /\ encoding = Absent /\ ~in.pytorch
    THEN IF in.local
         THEN IF in.safetensors
              THEN "ValueError"
              ELSE in.file_encoding
         ELSE IF in.file_encoding # Absent
              THEN in.file_encoding
              ELSE "ValueError"
    ELSE IF encoding = Absent
    THEN IF Cardinality(in.repo_encodings) = 1
         THEN CHOOSE e \in in.repo_encodings : TRUE
         ELSE IF in.accelerator /\ "bfloat16" \in arch.supported_encodings
              THEN "bfloat16"
              ELSE arch.default_encoding
    ELSE encoding

InferEncoding ==
    /\ pc = "encoding"
    /\ \E in \in EncodingInputs :
          LET after == EncodingAfter(pipeline_config.quantization_encoding,
                                     validate.arch, in)
          IN  IF after = "ValueError"
              THEN /\ validate' = [validate EXCEPT !.ret = "ValueError"]
                   /\ pc' = "returned"
                   /\ UNCHANGED pipeline_config
              ELSE /\ pipeline_config' =
                          [pipeline_config EXCEPT
                              !.quantization_encoding = after]
                   /\ pc' = "check_encoding"
                   /\ UNCHANGED validate
    /\ UNCHANGED <<registry, model, pinned, emf, oom, search, hist, outcome>>

\* variant of the test below, for checking that the properties notice it
EncodingSupportedAlways(encoding, arch) == TRUE

\* lines 258-261: `quantization_encoding not in arch.supported_encodings`,
\* negated
EncodingSupported(encoding, arch) == encoding \in arch.supported_encodings

\* lines 257-270: for an encoding the architecture does not support,
\* ValueError when the engine is MAX and the fallback to HuggingFace
\* otherwise
CheckEncoding ==
    /\ pc = "check_encoding"
    /\ IF EncodingSupported(pipeline_config.quantization_encoding,
                            validate.arch)
       THEN /\ pc' = "weights"
            /\ UNCHANGED <<pipeline_config, validate>>
       ELSE IF pipeline_config.engine = MAX
       THEN /\ validate' = [validate EXCEPT !.ret = "ValueError"]
            /\ pc' = "returned"
            /\ UNCHANGED pipeline_config
       ELSE /\ pipeline_config' =
                   [pipeline_config EXCEPT !.engine = HUGGINGFACE]
            /\ validate' = [validate EXCEPT !.ret = "fallback"]
            /\ pc' = "returned"
    /\ UNCHANGED <<registry, model, pinned, emf, oom, search, hist, outcome>>

\* lines 272-375: ValueError for an encoding the devices do not support,
\* for weights that cannot be found and for a weight file that does not
\* exist; otherwise the call of _estimate_memory_footprint
FindWeights ==
    /\ pc = "weights"
    /\ \/ /\ validate' = [validate EXCEPT !.ret = "ValueError"]
          /\ pc' = "returned"
       \/ /\ pc' = "start"
          /\ UNCHANGED validate
    /\ UNCHANGED <<registry, model, pipeline_config, pinned, emf, oom,
                   search, hist, outcome>>

\* lines 375-379: an exception of _estimate_memory_footprint leaves the
\* function; after its return the engine is set to MAX
ValidateReturn ==
    /\ pc = "done"
    /\ validate.ret = "running"
    /\ IF outcome \in {"Success", "Degraded"}
       THEN /\ pipeline_config' = [pipeline_config EXCEPT !.engine = MAX]
            /\ validate' = [validate EXCEPT !.ret = "returned"]
       ELSE /\ validate' = [validate EXCEPT !.ret = "raised"]
            /\ UNCHANGED pipeline_config
    /\ pc' = "returned"
    /\ UNCHANGED <<registry, model, pinned, emf, oom, search, hist, outcome>>

\* the inputs of validate_pipeline_config: the shared registry, empty or
\* after register_all_models, and a config with any architecture, engine
\* and encoding; a cache size that grows with the length and the batch
\* size and an inferred batch size of 1
ValidateInit ==
    /\ pc = "validate"
    /\ registry \in {NoRegistry, RegisterEach(NoRegistry, AllModels)}
    /\ validate = [NoValidate EXCEPT !.ret = "running"]
    /\ model \in Models
    /\ \A l \in Lens \ {MaxLen} : model.lenCost[l] <= model.lenCost[l + 1]
    /\ model.batchCost = LinearBatchCost
    /\ model.inferTable = InferOne
    /\ pipeline_config \in
           [max_length : {None} \cup Lens,
            max_batch_size : {None} \cup Batches,
            device_memory_utilization : {[num |-> 1, den |-> 1]},
            available_cache_memory : {None},
            architecture : {Absent},
            engine : {Absent},
            quantization_encoding : Encodings \cup {Absent}]
    /\ pinned = [max_length |-> pipeline_config.max_length,
                 max_batch_size |-> pipeline_config.max_batch_size]
    /\ emf = NoLocals
    /\ oom = NoOom
    /\ search = NoSearch
    /\ hist = NoHist
    /\ outcome = "running"

ValidateNext ==
    \/ UpdateArchitecture
    \/ LookupArchitecture
    \/ InferEncoding
    \/ CheckEncoding
    \/ FindWeights
    \/ Next
    \/ ValidateReturn

ValidateSpec == ValidateInit /\ [][ValidateNext]_vars

\* validate_pipeline_config has ended, by a return or by an exception
ValidateEnded == pc = "returned"

\* _estimate_memory_footprint was not called
ResolutionNotRun == emf = NoLocals /\ hist = NoHist /\ outcome = "running"

\* the config's max_length and max_batch_size are the caller's
LengthAndBatchUntouched ==
    /\ pipeline_config.max_length = pinned.max_length
    /\ pipeline_config.max_batch_size = pinned.max_batch_size

\* the config's architecture is not one the registry holds
NotRegistered ==
    pipeline_config.architecture \notin DOMAIN registry.architectures

\* the registry holds the config's architecture, which does not support
\* the config's encoding
EncodingNotSupported ==
    /\ ~NotRegistered
    /\ pipeline_config.quantization_encoding
           \notin registry.architectures[pipeline_config.architecture]
                      .supported_encodings

\* C29: in validate_pipeline_config the engine becomes MAX only by the
\* return that follows a resolution that did not raise; a fallback to
\* HuggingFace (the architecture is not registered or the encoding is not
\* supported, and the engine is not MAX) returns with engine HUGGINGFACE,
\* the resolution not run and max_length and max_batch_size untouched; with
\* the engine MAX the same conditions raise ValueError
C29_EngineAfterValidation ==
    /\ pc # "validate" /\ pipeline_config.engine = MAX /\ validate.engine # MAX
       => validate.ret = "returned"
    /\ validate.ret = "returned"
       => /\ pipeline_config.engine = MAX
          /\ outcome \in {"Success", "Degraded"}
          /\ hist.nWeights = 1 \/ outcome = "Degraded"
    /\ validate.ret = "fallback"
       => /\ pipeline_config.engine = HUGGINGFACE
          /\ validate.engine # MAX
          /\ NotRegistered \/ validate.engine = HUGGINGFACE
                \/ EncodingNotSupported
          /\ ResolutionNotRun
          /\ LengthAndBatchUntouched
    /\ ValidateEnded /\ validate.engine # MAX /\ NotRegistered
       => validate.ret = "fallback"
    /\ ValidateEnded /\ validate.engine # MAX /\ EncodingNotSupported
       => /\ validate.ret \in {"fallback", "ValueError"}
          /\ ResolutionNotRun
          /\ LengthAndBatchUntouched
    /\ ValidateEnded /\ validate.engine = MAX
          /\ (NotRegistered \/ EncodingNotSupported)
       => /\ validate.ret = "ValueError"
          /\ pipeline_config.engine = MAX
          /\ ResolutionNotRun
          /\ LengthAndBatchUntouched

\* the fallback for an encoding that a registered architecture does not
\* support was taken, with pinned max_length and max_batch_size
C29_Witness ==
    /\ validate.ret = "fallback"
    /\ validate.arch # NoArch
    /\ EncodingNotSupported
    /\ pinned.max_length # None
    /\ pinned.max_batch_size # None

====
